---- MODULE Spec2Model ----
(***************************************************************************)
(* Model of packages/remix-dev/vite/build.ts: the route-manifest helpers   *)
(* (getLeafRoutes, getRouteMatches), the bundle assigner                   *)
(* (getServerBundles), the output-directory guard                          *)
(* (cleanServerBuildDirectory) and the orchestrator build().               *)
(*                                                                         *)
(* Strings that the code inspects character by character (the result of    *)
(* path.relative) are sequences of one-character strings.  Paths are       *)
(* records [drive, segs]: a volume name and the sequence of segment names  *)
(* below the volume root; POSIX is the case of a single volume.            *)
(* Route ids range over names that are neither array indices nor           *)
(* properties of Object.prototype.                                         *)
(***************************************************************************)
EXTENDS Integers, Sequences, FiniteSets, TLC

VARIABLES
  pc,            \* position of build(): where its next continuation resumes
  config,        \* what vite.resolveConfig yields: plugin config + emptyOutDir
  guard,         \* state of cleanServerBuildDirectory / fse.remove
  removed,       \* TRUE once fse.remove(serverBuildDirectory) has succeeded
  client,        \* state of the client vite.build
  serverBundles, \* result of getServerBundles(pluginConfig), once computed
  server,        \* state of each server vite.build, by bundle index
  allPromise,    \* state of Promise.all(serverBundles.map(viteBuild))
  calls,         \* log of vite.build invocations: 0 = client, i = bundle i
  outcome,       \* settlement of the promise returned by build()
  startId,       \* the routeId argument of a call of getRouteMatches
  leafResult,    \* what a call of getLeafRoutes returned
  chain,         \* what a call of getRouteMatches returned
  todo,          \* getServerBundles: the leaf routes still to iterate
  acc,           \* getServerBundles: the serverBundles Map, in key order
  walkId,        \* getRouteMatches: currentRouteId
  walkResult     \* getRouteMatches: result

routeVars == <<startId, leafResult, chain, todo, acc, walkId, walkResult>>

vars == <<pc, config, guard, removed, client, serverBundles, server,
          allPromise, calls, outcome, routeVars>>

----------------------------------------------------------------------------
(* Bounds *)

MaxRoutes == 3
MaxDepth == 2

----------------------------------------------------------------------------
(* Strings *)

Sep == "/"

\* The characters of each path-segment name used by the model.
SegChars(name) ==
  CASE name = "app"   -> <<"a", "p", "p">>
    [] name = "build" -> <<"b", "u", "i", "l", "d">>
    [] name = "..b"   -> <<".", ".", "b">>
    [] name = ".."    -> <<".", ".">>
    [] name = "."     -> <<".">>
    [] OTHER          -> <<"x">>

\* String.prototype.startsWith("..")
StartsWithDotDot(s) == Len(s) >= 2 /\ s[1] = "." /\ s[2] = "."

RECURSIVE JoinChars(_)
\* Array.prototype.join(sep) over segment names, as a character sequence.
JoinChars(names) ==
  IF names = <<>> THEN <<>>
  ELSE IF Len(names) = 1 THEN SegChars(names[1])
  ELSE SegChars(names[1]) \o <<Sep>> \o JoinChars(Tail(names))

----------------------------------------------------------------------------
(* node:path *)

\* The absolute path as a string: volume, ":", separator, segments.
PathString(p) == <<p.drive, ":", Sep>> \o JoinChars(p.segs)

RECURSIVE CommonLen(_, _)
\* Number of leading segments two segment sequences share.
CommonLen(a, b) ==
  IF a = <<>> \/ b = <<>> \/ a[1] # b[1] THEN 0
  ELSE 1 + CommonLen(Tail(a), Tail(b))

\* path.relative(from, to) for two resolved absolute paths, as a string:
\* "" when equal, one ".." per segment of from below the common ancestor
\* followed by the rest of to; the absolute to when the volumes differ.
PathRelative(from, to) ==
  IF from.drive # to.drive THEN PathString(to)
  ELSE LET k == CommonLen(from.segs, to.segs)
           ups == [i \in 1..(Len(from.segs) - k) |-> ".."]
       IN JoinChars(ups \o SubSeq(to.segs, k + 1, Len(to.segs)))

\* path.isAbsolute(s)
PathIsAbsolute(s) ==
  /\ Len(s) > 0
  /\ \/ s[1] = Sep
     \/ Len(s) >= 3 /\ s[2] = ":" /\ s[3] = Sep

RECURSIVE NormalizeSegs(_, _)
\* path.normalize on the segments of an absolute path: "." is dropped and
\* ".." removes the segment before it (and is dropped at the volume root).
NormalizeSegs(done, rest) ==
  IF rest = <<>> THEN done
  ELSE IF rest[1] = "." THEN NormalizeSegs(done, Tail(rest))
  ELSE IF rest[1] = ".."
    THEN NormalizeSegs(IF done = <<>> THEN <<>>
                       ELSE SubSeq(done, 1, Len(done) - 1), Tail(rest))
  ELSE NormalizeSegs(Append(done, rest[1]), Tail(rest))

\* path.join(dir, suffix) for an absolute dir and a relative suffix given as
\* its segments.
PathJoin(dir, suffix) ==
  [drive |-> dir.drive, segs |-> NormalizeSegs(<<>>, dir.segs \o suffix)]

\* dir is to or a descendant of to.
IsPrefix(a, b) == Len(a) <= Len(b) /\ SubSeq(b, 1, Len(a)) = a

----------------------------------------------------------------------------
(* Route manifests: a manifest is the sequence of its routes in insertion   *)
(* order, keyed by route id.                                                *)

NoParent == "undefined"
MissingId == "zz"

\* The route ids, in the order the manifests of the model insert them.
RouteIds == <<"root", "a", "b", "c", "d">>

Keys(routes) == {routes[i].id : i \in 1..Len(routes)}

\* routes[id]
Lookup(routes, id) ==
  LET i == CHOOSE i \in 1..Len(routes) : routes[i].id = id IN routes[i]

\* A getLeafRoutes that returns the routes without parent instead.
getLeafRoutes_Parentless(routes) ==
  SelectSeq(routes, LAMBDA r : r.parentId = NoParent)

\* getLeafRoutes: the routes whose id is no route's parentId, in order.
getLeafRoutes(routes) ==
  LET parentIds == {routes[i].parentId : i \in 1..Len(routes)} \ {NoParent}
  IN SelectSeq(routes, LAMBDA r : r.id \notin parentIds)

Reverse(s) == [i \in 1..Len(s) |-> s[Len(s) + 1 - i]]

RECURSIVE Walk_StopsAtMissing(_, _, _)
\* A walk that ends the chain at a missing route instead of failing.
Walk_StopsAtMissing(routes, result, currentRouteId) ==
  IF currentRouteId = NoParent \/ currentRouteId \notin Keys(routes)
    THEN [kind |-> "ok", matches |-> Reverse(result)]
  ELSE IF \E i \in 1..Len(result) : result[i].id = currentRouteId
    THEN [kind |-> "diverge"]
  ELSE Walk_StopsAtMissing(routes,
                           Append(result, Lookup(routes, currentRouteId)),
                           Lookup(routes, currentRouteId).parentId)

RECURSIVE Walk(_, _, _)
\* The while loop of getRouteMatches.  The walk is deterministic, so it
\* never ends once it visits a route a second time.
Walk(routes, result, currentRouteId) ==
  IF currentRouteId = NoParent
    THEN [kind |-> "ok", matches |-> Reverse(result)]
  ELSE IF currentRouteId \notin Keys(routes)
    THEN [kind |-> "throw", error |-> "Missing route"]
  ELSE IF \E i \in 1..Len(result) : result[i].id = currentRouteId
    THEN [kind |-> "diverge"]
  ELSE Walk(routes, Append(result, Lookup(routes, currentRouteId)),
            Lookup(routes, currentRouteId).parentId)

\* A getRouteMatches that returns the chain as collected, target first.
getRouteMatches_NoReverse(routes, routeId) ==
  LET w == Walk(routes, <<>>, routeId)
  IN IF w.kind = "ok" THEN [w EXCEPT !.matches = Reverse(@)] ELSE w

\* A getRouteMatches that returns the route alone, without its ancestors.
getRouteMatches_LeafOnly(routes, routeId) ==
  IF routeId \in Keys(routes)
    THEN [kind |-> "ok", matches |-> <<Lookup(routes, routeId)>>]
    ELSE Walk(routes, <<>>, routeId)

getRouteMatches(routes, routeId) == Walk(routes, <<>>, routeId)

----------------------------------------------------------------------------
(* getServerBundles *)

\* The optional serverBundleDirectory function is <<>> when absent and
\* <<f>> when present, f mapping the id of the leaf route it is called with
\* to the segments of the directory it returns.
NoClassifier == <<>>

RECURSIVE MergeMatches_AlwaysAppend(_, _)
\* A merge that pushes every match instead of assigning it under its id.
MergeMatches_AlwaysAppend(routes, matches) ==
  IF matches = <<>> THEN routes
  ELSE MergeMatches_AlwaysAppend(Append(routes, matches[1]), Tail(matches))

RECURSIVE MergeMatches(_, _)
\* for (let match of matches) serverBuildConfig.routes[match.id] = match
MergeMatches(routes, matches) ==
  IF matches = <<>> THEN routes
  ELSE LET match == matches[1]
           merged == IF match.id \in Keys(routes)
                       THEN [i \in 1..Len(routes) |->
                               IF routes[i].id = match.id THEN match
                               ELSE routes[i]]
                       ELSE Append(routes, match)
       IN MergeMatches(merged, Tail(matches))

\* A grouping that starts a fresh routes map for every leaf, also when the
\* key already has a bundle.
PutBundle_Overwrites(bundles, dir, matches) ==
  IF \E i \in 1..Len(bundles) : bundles[i].serverBuildDirectory = dir
    THEN [i \in 1..Len(bundles) |->
            IF bundles[i].serverBuildDirectory = dir
              THEN [bundles[i] EXCEPT !.routes = MergeMatches(<<>>, matches)]
              ELSE bundles[i]]
    ELSE Append(bundles, [routes |-> MergeMatches(<<>>, matches),
                          serverBuildDirectory |-> dir])

\* A grouping that deletes and re-inserts the entry of a key it meets again,
\* so that the Map is ordered by the last leaf of each key.
PutBundle_MovesToEnd(bundles, dir, matches) ==
  IF \E i \in 1..Len(bundles) : bundles[i].serverBuildDirectory = dir
    THEN LET old == CHOOSE i \in 1..Len(bundles) :
                      bundles[i].serverBuildDirectory = dir
         IN Append(SelectSeq(bundles,
                             LAMBDA b : b.serverBuildDirectory # dir),
                   [bundles[old] EXCEPT !.routes = MergeMatches(@, matches)])
    ELSE Append(bundles, [routes |-> MergeMatches(<<>>, matches),
                          serverBuildDirectory |-> dir])

\* A grouping without the lookup: every leaf gets a new ServerBuildConfig.
PutBundle_AlwaysNew(bundles, dir, matches) ==
  Append(bundles, [routes |-> MergeMatches(<<>>, matches),
                   serverBuildDirectory |-> dir])

\* serverBundles.get(dir) / serverBundles.set(dir, ...) followed by the
\* merge: the Map keeps the position of the first insertion of each key.
PutBundle(bundles, dir, matches) ==
  IF \E i \in 1..Len(bundles) : bundles[i].serverBuildDirectory = dir
    THEN [i \in 1..Len(bundles) |->
            IF bundles[i].serverBuildDirectory = dir
              THEN [bundles[i] EXCEPT !.routes = MergeMatches(@, matches)]
              ELSE bundles[i]]
    ELSE Append(bundles, [routes |-> MergeMatches(<<>>, matches),
                          serverBuildDirectory |-> dir])

RECURSIVE BundleLoop(_, _, _)
\* for (let route of getLeafRoutes(routes)) { ... }
BundleLoop(cfg, leaves, bundles) ==
  IF leaves = <<>> THEN [kind |-> "ok", bundles |-> bundles]
  ELSE LET route == leaves[1]
           m == getRouteMatches(cfg.routes, route.id)
       IN IF m.kind # "ok" THEN m
          ELSE LET serverBundleDirectory ==
                     PathJoin(cfg.serverBuildDirectory,
                              cfg.serverBundleDirectory[1][route.id])
               IN BundleLoop(cfg, Tail(leaves),
                             PutBundle(bundles, serverBundleDirectory,
                                       m.matches))

\* A bundle assigner without the single-bundle early return: it groups the
\* leaf chains under the default directory.
getServerBundles_NoEarlyReturn(cfg) ==
  BundleLoop(IF cfg.serverBundleDirectory = NoClassifier
               THEN [cfg EXCEPT !.serverBundleDirectory =
                       <<[id \in Keys(cfg.routes) |-> <<>>]>>]
               ELSE cfg,
             getLeafRoutes(cfg.routes), <<>>)

getServerBundles(cfg) ==
  IF cfg.serverBundleDirectory = NoClassifier
    THEN [kind |-> "ok",
          bundles |-> <<[routes |-> cfg.routes,
                         serverBuildDirectory |-> cfg.serverBuildDirectory]>>]
    ELSE BundleLoop(cfg, getLeafRoutes(cfg.routes), <<>>)

----------------------------------------------------------------------------
(* cleanServerBuildDirectory *)

isWithinRoot(cfg) ==
  LET relativePath == PathRelative(cfg.rootDirectory, cfg.serverBuildDirectory)
  IN ~StartsWithDotDot(relativePath) /\ ~PathIsAbsolute(relativePath)

\* emptyOutDir || isWithinRoot(): an explicit false does not override.
ShouldRemove_Or(cfg) == cfg.emptyOutDir = "true" \/ isWithinRoot(cfg)

\* viteConfig.build.emptyOutDir ?? isWithinRoot()
ShouldRemove(cfg) ==
  IF cfg.emptyOutDir = "unset" THEN isWithinRoot(cfg)
  ELSE cfg.emptyOutDir = "true"

----------------------------------------------------------------------------
(* Inputs *)

ParentChoices == {NoParent, MissingId} \cup {RouteIds[j] : j \in 1..MaxRoutes}

\* Every manifest of n routes: any parentId, well-formed or not (dangling
\* parents, cycles, several roots).
ManifestsOfLen(n) ==
  {[i \in 1..n |-> [id |-> RouteIds[i], parentId |-> f[i]]] :
     f \in [1..n -> ParentChoices]}

Manifests == UNION {ManifestsOfLen(n) : n \in 0..MaxRoutes}

IdSet == {RouteIds[j] : j \in 1..MaxRoutes}

\* Directories a serverBundleDirectory function may return: "x", "y", "../x".
Suffixes == {<<"x">>, <<"y">>, <<"..", "x">>}

Classifiers == {<<f>> : f \in [IdSet -> Suffixes]}

\* ({ route }) => "x",  ({ route }) => route.id,  ({ route }) => "../" + route.id
SameDir == <<[id \in IdSet |-> <<"x">>]>>
DirPerRoute == <<[id \in IdSet |-> <<id>>]>>
DirOutside == <<[id \in IdSet |-> <<"..", id>>]>>

AppRoot == [drive |-> "C", segs |-> <<"app">>]
AppBuild == [drive |-> "C", segs |-> <<"app", "build">>]

Drives == {"C", "D"}
SegNames == {"app", "build", "..b"}

SegsUpTo(n) == UNION {[1..k -> SegNames] : k \in 0..n}

Paths == {[drive |-> d, segs |-> sg] : d \in Drives, sg \in SegsUpTo(MaxDepth)}

EmptyOutDirs == {"true", "false", "unset"}

MkConfig(found, routes, classifier, root, dir, empty) ==
  [pluginFound |-> found, routes |-> routes,
   serverBundleDirectory |-> classifier,
   rootDirectory |-> root, serverBuildDirectory |-> dir,
   emptyOutDir |-> empty]

\* A Vite config without the Remix plugin.
NoPluginConfig ==
  MkConfig(FALSE, <<>>, NoClassifier, AppRoot, AppBuild, "unset")

\* Configurations of the orchestrator runs.
BuildConfigs ==
  {MkConfig(TRUE, m, c, AppRoot, AppBuild, e) :
     m \in Manifests,
     c \in {NoClassifier, SameDir, DirPerRoute, DirOutside},
     e \in EmptyOutDirs}
  \cup {NoPluginConfig}

\* Configurations that vary the directories the guard looks at.
GuardConfigs ==
  {MkConfig(TRUE, <<[id |-> "root", parentId |-> NoParent]>>, NoClassifier,
            r, d, e) :
     r \in Paths, d \in Paths, e \in EmptyOutDirs}
  \cup {NoPluginConfig}

\* Configurations that vary the manifest and the classification function.
BundleConfigs ==
  {MkConfig(TRUE, m, c, AppRoot, AppBuild, "unset") :
     m \in Manifests, c \in Classifiers \cup {NoClassifier}}

----------------------------------------------------------------------------
(* build() *)

Pending == [status |-> "pending", errors |-> {}]

\* No call of the route helpers is traced.
RouteVarsIdle ==
  /\ startId = NoParent
  /\ leafResult = <<>>
  /\ chain = <<>>
  /\ todo = <<>>
  /\ acc = <<>>
  /\ walkId = NoParent
  /\ walkResult = <<>>

\* build() has not been called.
BuildVarsIdle ==
  /\ guard = "idle"
  /\ removed = FALSE
  /\ client = "idle"
  /\ serverBundles = <<>>
  /\ server = <<>>
  /\ allPromise = [status |-> "none", reason |-> 0]
  /\ calls = <<>>
  /\ outcome = Pending

InitWith(configs) ==
  /\ config \in configs
  /\ pc = "extract"
  /\ guard = "idle"
  /\ removed = FALSE
  /\ client = "idle"
  /\ serverBundles = <<>>
  /\ server = <<>>
  /\ allPromise = [status |-> "none", reason |-> 0]
  /\ calls = <<>>
  /\ outcome = Pending
  /\ RouteVarsIdle

Init == InitWith(BuildConfigs)

\* extractRemixPluginConfig: process.exit(1) when the plugin is not found.
ExtractConfig ==
  /\ UNCHANGED routeVars
  /\ pc = "extract"
  /\ IF config.pluginFound
       THEN pc' = "clean" /\ outcome' = outcome
       ELSE pc' = "exit" /\ outcome' = [status |-> "exit", errors |-> {}]
  /\ UNCHANGED <<config, guard, removed, client, serverBundles, server,
                 allPromise, calls>>

\* cleanServerBuildDirectory up to its await: fse.remove is started when
\* the guard authorizes it, otherwise the function completes.
CleanServerBuildDirectory ==
  /\ UNCHANGED routeVars
  /\ pc = "clean"
  /\ guard' = IF ShouldRemove(config) THEN "removing" ELSE "done"
  /\ pc' = "awaitClean"
  /\ UNCHANGED <<config, removed, client, serverBundles, server, allPromise,
                 calls, outcome>>

\* fse.remove(serverBuildDirectory) resolves.
RemoveSucceeds ==
  /\ UNCHANGED routeVars
  /\ guard = "removing"
  /\ guard' = "done"
  /\ removed' = TRUE
  /\ UNCHANGED <<pc, config, client, serverBundles, server, allPromise,
                 calls, outcome>>

\* fse.remove(serverBuildDirectory) rejects (e.g. permission denied).
RemoveFails ==
  /\ UNCHANGED routeVars
  /\ guard = "removing"
  /\ guard' = "failed"
  /\ UNCHANGED <<pc, config, removed, client, serverBundles, server,
                 allPromise, calls, outcome>>

\* A build() that drops the rejection of cleanServerBuildDirectory.
AfterClean_IgnoresRemoveFailure ==
  /\ UNCHANGED routeVars
  /\ pc = "awaitClean"
  /\ guard \in {"done", "failed"}
  /\ pc' = "awaitClient"
  /\ client' = "running"
  /\ calls' = Append(calls, 0)
  /\ UNCHANGED <<config, guard, removed, serverBundles, server, allPromise,
                 outcome>>

\* build() resumes after `await cleanServerBuildDirectory(...)`: it rejects,
\* or calls viteBuild() for the client build.
AfterClean ==
  /\ UNCHANGED routeVars
  /\ pc = "awaitClean"
  /\ guard \in {"done", "failed"}
  /\ IF guard = "failed"
       THEN /\ pc' = "done"
            /\ outcome' = [status |-> "rejected", errors |-> {<<"remove", 0>>}]
            /\ UNCHANGED <<client, calls>>
       ELSE /\ pc' = "awaitClient"
            /\ client' = "running"
            /\ calls' = Append(calls, 0)
            /\ UNCHANGED outcome
  /\ UNCHANGED <<config, guard, removed, serverBundles, server, allPromise>>

\* The client vite.build resolves.
ClientSucceeds ==
  /\ UNCHANGED routeVars
  /\ client = "running"
  /\ client' = "ok"
  /\ UNCHANGED <<pc, config, guard, removed, serverBundles, server,
                 allPromise, calls, outcome>>

\* The client vite.build rejects.
ClientFails ==
  /\ UNCHANGED routeVars
  /\ client = "running"
  /\ client' = "failed"
  /\ UNCHANGED <<pc, config, guard, removed, serverBundles, server,
                 allPromise, calls, outcome>>

\* A build() that calls viteBuild on the first server bundle only.
StartServerBuilds_FirstBundleOnly ==
  LET r == getServerBundles(config) IN
  CASE r.kind = "throw" ->
         /\ pc' = "done"
         /\ outcome' = [status |-> "rejected", errors |-> {<<"invariant", 0>>}]
         /\ UNCHANGED <<serverBundles, server, allPromise, calls>>
    [] r.kind = "diverge" ->
         /\ pc' = "hang"
         /\ UNCHANGED <<serverBundles, server, allPromise, calls, outcome>>
    [] OTHER ->
         /\ pc' = "awaitServers"
         /\ serverBundles' = r.bundles
         /\ server' = [i \in {j \in 1..Len(r.bundles) : j = 1} |-> "running"]
         /\ calls' = calls \o [i \in {j \in 1..Len(r.bundles) : j = 1} |-> i]
         /\ allPromise' =
              [status |-> IF r.bundles = <<>> THEN "fulfilled" ELSE "pending",
               reason |-> 0]
         /\ UNCHANGED outcome

\* let serverBundles = getServerBundles(pluginConfig);
\* await Promise.all(serverBundles.map(viteBuild)) up to the await.  An
\* invariant failure rejects build(); a walk that never ends leaves it
\* pending forever.
StartServerBuilds ==
  LET r == getServerBundles(config) IN
  CASE r.kind = "throw" ->
         /\ pc' = "done"
         /\ outcome' = [status |-> "rejected", errors |-> {<<"invariant", 0>>}]
         /\ UNCHANGED <<serverBundles, server, allPromise, calls>>
    [] r.kind = "diverge" ->
         /\ pc' = "hang"
         /\ UNCHANGED <<serverBundles, server, allPromise, calls, outcome>>
    [] OTHER ->
         /\ pc' = "awaitServers"
         /\ serverBundles' = r.bundles
         /\ server' = [i \in 1..Len(r.bundles) |-> "running"]
         /\ calls' = calls \o [i \in 1..Len(r.bundles) |-> i]
         /\ allPromise' =
              [status |-> IF r.bundles = <<>> THEN "fulfilled" ELSE "pending",
               reason |-> 0]
         /\ UNCHANGED outcome

\* A build() that does not await the client build before the server builds.
AfterClient_NoAwait ==
  /\ UNCHANGED routeVars
  /\ pc = "awaitClient"
  /\ client \in {"running", "ok", "failed"}
  /\ IF client = "failed"
       THEN /\ pc' = "done"
            /\ outcome' = [status |-> "rejected", errors |-> {<<"client", 0>>}]
            /\ UNCHANGED <<serverBundles, server, allPromise, calls>>
       ELSE StartServerBuilds
  /\ UNCHANGED <<config, guard, removed, client>>

\* A build() that catches and drops the failure of the client build.
AfterClient_SwallowsFailure ==
  /\ UNCHANGED routeVars
  /\ pc = "awaitClient"
  /\ client \in {"ok", "failed"}
  /\ StartServerBuilds
  /\ UNCHANGED <<config, guard, removed, client>>

\* build() resumes after `await viteBuild()`: it rejects, or goes on to the
\* server builds.
AfterClient ==
  /\ UNCHANGED routeVars
  /\ pc = "awaitClient"
  /\ client \in {"ok", "failed"}
  /\ IF client = "failed"
       THEN /\ pc' = "done"
            /\ outcome' = [status |-> "rejected", errors |-> {<<"client", 0>>}]
            /\ UNCHANGED <<serverBundles, server, allPromise, calls>>
       ELSE StartServerBuilds
  /\ UNCHANGED <<config, guard, removed, client>>

\* The server vite.build of bundle i resolves; Promise.all fulfils when it
\* was the last one and none has rejected.
ServerSucceeds(i) ==
  /\ UNCHANGED routeVars
  /\ server[i] = "running"
  /\ server' = [server EXCEPT ![i] = "ok"]
  /\ allPromise' =
       IF allPromise.status = "pending"
          /\ \A j \in DOMAIN server : j # i => server[j] = "ok"
         THEN [status |-> "fulfilled", reason |-> 0]
         ELSE allPromise
  /\ UNCHANGED <<pc, config, guard, removed, client, serverBundles, calls,
                 outcome>>

\* The server vite.build of bundle i rejects; Promise.all rejects with the
\* reason of the first rejection and ignores the later ones.
ServerFails(i) ==
  /\ UNCHANGED routeVars
  /\ server[i] = "running"
  /\ server' = [server EXCEPT ![i] = "failed"]
  /\ allPromise' =
       IF allPromise.status = "pending"
         THEN [status |-> "rejected", reason |-> i]
         ELSE allPromise
  /\ UNCHANGED <<pc, config, guard, removed, client, serverBundles, calls,
                 outcome>>

\* build() resumes after `await Promise.all(...)`.
AfterServers ==
  /\ UNCHANGED routeVars
  /\ pc = "awaitServers"
  /\ allPromise.status \in {"fulfilled", "rejected"}
  /\ pc' = "done"
  /\ outcome' =
       IF allPromise.status = "fulfilled"
         THEN [status |-> "resolved", errors |-> {}]
         ELSE [status |-> "rejected",
               errors |-> {<<"server", allPromise.reason>>}]
  /\ UNCHANGED <<config, guard, removed, client, serverBundles, server,
                 allPromise, calls>>

Next ==
  \/ ExtractConfig
  \/ CleanServerBuildDirectory
  \/ RemoveSucceeds
  \/ RemoveFails
  \/ AfterClean
  \/ ClientSucceeds
  \/ ClientFails
  \/ AfterClient
  \/ \E i \in DOMAIN server : ServerSucceeds(i)
  \/ \E i \in DOMAIN server : ServerFails(i)
  \/ AfterServers

Spec == Init /\ [][Next]_vars

\* The same program over the configurations that vary the directories.
InitGuard == InitWith(GuardConfigs)
SpecGuard == InitGuard /\ [][Next]_vars

----------------------------------------------------------------------------
(* The bundle assigner on its own *)

InitBundles ==
  /\ config \in BundleConfigs
  /\ pc = "assign"
  /\ guard = "idle"
  /\ removed = FALSE
  /\ client = "idle"
  /\ serverBundles = <<>>
  /\ server = <<>>
  /\ allPromise = [status |-> "none", reason |-> 0]
  /\ calls = <<>>
  /\ outcome = Pending
  /\ RouteVarsIdle

\* let serverBundles = getServerBundles(pluginConfig)
AssignBundles ==
  /\ UNCHANGED routeVars
  /\ pc = "assign"
  /\ LET r == getServerBundles(config) IN
       /\ pc' = IF r.kind = "ok" THEN "assigned"
                ELSE IF r.kind = "throw" THEN "thrown" ELSE "hang"
       /\ serverBundles' = IF r.kind = "ok" THEN r.bundles ELSE <<>>
  /\ UNCHANGED <<config, guard, removed, client, server, allPromise, calls,
                 outcome>>

NextBundles == AssignBundles

SpecBundles == InitBundles /\ [][NextBundles]_vars

----------------------------------------------------------------------------
(* The route-manifest helpers on their own *)

\* Configurations that vary the manifest only.
RouteConfigs ==
  {MkConfig(TRUE, m, NoClassifier, AppRoot, AppBuild, "unset") :
     m \in Manifests}

InitRoutes ==
  /\ config \in RouteConfigs
  /\ pc = "call"
  /\ BuildVarsIdle
  /\ startId \in IdSet \cup {MissingId}
  /\ leafResult = <<>>
  /\ chain = <<>>
  /\ todo = <<>>
  /\ acc = <<>>
  /\ walkId = NoParent
  /\ walkResult = <<>>

\* getLeafRoutes(routes)
CallGetLeafRoutes ==
  /\ pc = "call"
  /\ pc' = "leafRoutes"
  /\ leafResult' = getLeafRoutes(config.routes)
  /\ UNCHANGED <<config, guard, removed, client, serverBundles, server,
                 allPromise, calls, outcome, startId, chain, todo, acc,
                 walkId, walkResult>>

\* getRouteMatches(routes, routeId): it returns the chain, fails on the
\* invariant, or never returns.
CallGetRouteMatches ==
  /\ pc = "call"
  /\ LET r == getRouteMatches(config.routes, startId) IN
       /\ pc' = IF r.kind = "ok" THEN "matched"
                ELSE IF r.kind = "throw" THEN "missing" ELSE "hang"
       /\ chain' = IF r.kind = "ok" THEN r.matches ELSE chain
  /\ UNCHANGED <<config, guard, removed, client, serverBundles, server,
                 allPromise, calls, outcome, startId, leafResult, todo, acc,
                 walkId, walkResult>>

NextRoutes == CallGetLeafRoutes \/ CallGetRouteMatches

SpecRoutes == InitRoutes /\ [][NextRoutes]_vars

----------------------------------------------------------------------------
(* getRouteMatches and getServerBundles, one loop iteration at a time *)

\* The elements of `result` are tracked up to this length; a walk that goes
\* on pushing beyond it keeps running with the tracked prefix.
ResultCap == MaxRoutes + 1

WalkConfigs ==
  {MkConfig(TRUE, m, c, AppRoot, AppBuild, "unset") :
     m \in Manifests, c \in {NoClassifier, SameDir, DirPerRoute, DirOutside}}

\* Either a call getRouteMatches(routes, startId) or a call
\* getServerBundles(config), in which startId is unset.
InitWalk ==
  /\ BuildVarsIdle
  /\ leafResult = <<>>
  /\ chain = <<>>
  /\ todo = <<>>
  /\ acc = <<>>
  /\ walkId = NoParent
  /\ walkResult = <<>>
  /\ \/ /\ pc = "getRouteMatches"
        /\ config \in RouteConfigs
        /\ startId \in IdSet \cup {MissingId}
     \/ /\ pc = "getServerBundles"
        /\ config \in WalkConfigs
        /\ startId = NoParent

\* let result = []; let currentRouteId = routeId
EnterGetRouteMatches ==
  /\ pc = "getRouteMatches"
  /\ walkId' = startId
  /\ walkResult' = <<>>
  /\ pc' = "walk"
  /\ UNCHANGED <<config, guard, removed, client, serverBundles, server,
                 allPromise, calls, outcome, startId, leafResult, chain,
                 todo, acc>>

\* getServerBundles up to its loop: the single-bundle return, or the leaf
\* routes to iterate and an empty Map.
EnterGetServerBundles ==
  /\ pc = "getServerBundles"
  /\ IF config.serverBundleDirectory = NoClassifier
       THEN /\ acc' = <<[routes |-> config.routes,
                         serverBuildDirectory |-> config.serverBuildDirectory]>>
            /\ pc' = "returned"
            /\ UNCHANGED <<todo, leafResult>>
       ELSE /\ leafResult' = getLeafRoutes(config.routes)
            /\ todo' = leafResult'
            /\ acc' = <<>>
            /\ pc' = "leaf"
  /\ UNCHANGED <<config, guard, removed, client, serverBundles, server,
                 allPromise, calls, outcome, startId, chain, walkId,
                 walkResult>>

\* The head of `for (let route of getLeafRoutes(routes))`: the loop ends and
\* the Map's values are returned, or getRouteMatches is entered for the
\* next leaf.
NextLeaf ==
  /\ pc = "leaf"
  /\ IF todo = <<>>
       THEN /\ pc' = "returned"
            /\ UNCHANGED <<walkId, walkResult>>
       ELSE /\ walkId' = todo[1].id
            /\ walkResult' = <<>>
            /\ pc' = "walk"
  /\ UNCHANGED <<config, guard, removed, client, serverBundles, server,
                 allPromise, calls, outcome, startId, leafResult, chain,
                 todo, acc>>

\* A while loop that never assigns currentRouteId.
WalkStep_NoAdvance ==
  /\ pc = "walk"
  /\ walkId # NoParent
  /\ IF walkId \notin Keys(config.routes)
       THEN /\ pc' = "thrown"
            /\ UNCHANGED <<walkId, walkResult>>
       ELSE /\ walkResult' =
                 IF Len(walkResult) < ResultCap
                   THEN Append(walkResult, Lookup(config.routes, walkId))
                   ELSE walkResult
            /\ UNCHANGED <<pc, walkId>>
  /\ UNCHANGED <<config, guard, removed, client, serverBundles, server,
                 allPromise, calls, outcome, startId, leafResult, chain,
                 todo, acc>>

\* One iteration of `while (currentRouteId)`: the invariant fails, or the
\* route is pushed and its parentId becomes the current id.
WalkStep ==
  /\ pc = "walk"
  /\ walkId # NoParent
  /\ IF walkId \notin Keys(config.routes)
       THEN /\ pc' = "thrown"
            /\ UNCHANGED <<walkId, walkResult>>
       ELSE /\ walkResult' =
                 IF Len(walkResult) < ResultCap
                   THEN Append(walkResult, Lookup(config.routes, walkId))
                   ELSE walkResult
            /\ walkId' = Lookup(config.routes, walkId).parentId
            /\ UNCHANGED pc
  /\ UNCHANGED <<config, guard, removed, client, serverBundles, server,
                 allPromise, calls, outcome, startId, leafResult, chain,
                 todo, acc>>

\* The loop condition is falsy: return result.reverse(); in getServerBundles
\* the chain is merged into the bundle of the leaf's directory.
WalkReturn ==
  /\ pc = "walk"
  /\ walkId = NoParent
  /\ chain' = Reverse(walkResult)
  /\ IF todo = <<>>
       THEN /\ pc' = "returned"
            /\ UNCHANGED <<todo, acc>>
       ELSE /\ acc' = PutBundle(acc,
                                PathJoin(config.serverBuildDirectory,
                                         config.serverBundleDirectory[1][todo[1].id]),
                                chain')
            /\ todo' = Tail(todo)
            /\ pc' = "leaf"
  /\ UNCHANGED <<config, guard, removed, client, serverBundles, server,
                 allPromise, calls, outcome, startId, leafResult, walkId,
                 walkResult>>

NextWalk ==
  \/ EnterGetRouteMatches
  \/ EnterGetServerBundles
  \/ NextLeaf
  \/ WalkStep
  \/ WalkReturn

SpecWalk == InitWalk /\ [][NextWalk]_vars

\* The loops are synchronous code of one thread: a call that can take a
\* step takes it.
SpecWalkFair == SpecWalk /\ WF_vars(NextWalk)

----------------------------------------------------------------------------
(* Properties *)

ServerCalls == {k \in 1..Len(calls) : calls[k] # 0}
ClientCalls == {k \in 1..Len(calls) : calls[k] = 0}

\* fse.remove(serverBuildDirectory) has been called.
RemoveRequested == guard \in {"removing", "failed"} \/ removed

\* cleanServerBuildDirectory has taken its decision.
GuardDecided == guard # "idle"

\* build() has settled the promise it returned.
Reported == outcome.status \in {"resolved", "rejected"}

\* Some route's parentId names an id that is not a key of the manifest.
HasDanglingParent(routes) ==
  \E i \in 1..Len(routes) :
     routes[i].parentId # NoParent /\ routes[i].parentId \notin Keys(routes)

\* dir is a proper descendant of root.
StrictlyInside(root, dir) ==
  /\ root.drive = dir.drive
  /\ IsPrefix(root.segs, dir.segs)
  /\ root.segs # dir.segs

\* C1: the guard, with any removal it performs, has completed before the
\* client build is started, the client build has completed before any server
\* build is started, and no server build is in flight while the guard or
\* the client build is still running.
C1_PhasesStrictlyOrdered ==
  /\ client # "idle" =>
       guard = "done" /\ (ShouldRemove(config) => removed)
  /\ (server # <<>> \/ ServerCalls # {}) =>
       guard = "done" /\ client = "ok"
  /\ \A i \in DOMAIN server :
       server[i] = "running" => guard # "removing" /\ client # "running"

C1_Witness ==
  /\ removed
  /\ client = "ok"
  /\ Len(server) >= 2
  /\ \E i \in DOMAIN server : server[i] = "running"

\* C2: when a server bundle build has failed, build() does not report its
\* outcome until every launched server bundle build has settled.
C2_ReportsAfterAllSettled ==
  (Reported /\ \E i \in DOMAIN server : server[i] = "failed") =>
    \A i \in DOMAIN server : server[i] # "running"

\* C3: when several server bundle builds fail, the failure build() reports
\* carries the error of every failed bundle.
C3_ReportsEveryFailure ==
  (/\ outcome.status = "rejected"
   /\ server # <<>>
   /\ \A i \in DOMAIN server : server[i] # "running") =>
    outcome.errors = {<<"server", i>> : i \in {j \in DOMAIN server :
                                                  server[j] = "failed"}}

\* C4: if the client build fails, build() reports failure and the build
\* operation is never invoked in server mode; the bundles are never built.
C4_ClientFailureStopsBuild ==
  client = "failed" =>
    /\ ServerCalls = {}
    /\ server = <<>>
    /\ serverBundles = <<>>
    /\ pc \in {"awaitClient", "done"}
    /\ pc = "done" => outcome = [status |-> "rejected",
                                 errors |-> {<<"client", 0>>}]

C4_Witness ==
  /\ client = "failed"
  /\ pc = "done"
  /\ config.serverBundleDirectory # NoClassifier
  /\ Len(config.routes) >= 2

\* C5: if removing the output directory fails, build() reports failure and
\* neither the client build nor any server build is ever started.
C5_RemoveFailureStopsBuild ==
  guard = "failed" =>
    /\ client = "idle"
    /\ calls = <<>>
    /\ server = <<>>
    /\ pc \in {"awaitClean", "done"}
    /\ pc = "done" => outcome = [status |-> "rejected",
                                 errors |-> {<<"remove", 0>>}]

C5_Witness == guard = "failed" /\ pc = "done" /\ ~removed

\* C6: with no explicit empty-output preference, the guard removes the
\* server output directory exactly when it is strictly inside the project
\* root: not when it is outside, and not when it is the root itself.
C6_RemovesIffStrictlyInside ==
  (GuardDecided /\ config.emptyOutDir = "unset") =>
    (RemoveRequested <=>
       StrictlyInside(config.rootDirectory, config.serverBuildDirectory))

\* C7: an explicit preference overrides the location check in both
\* directions: explicitly true, the directory is removed wherever it lies;
\* explicitly false, it is never removed.
C7_ExplicitPreferenceOverrides ==
  /\ (GuardDecided /\ config.emptyOutDir = "true") => RemoveRequested
  /\ config.emptyOutDir = "false" => ~RemoveRequested

C7_Witness ==
  /\ config.emptyOutDir = "true"
  /\ ~IsPrefix(config.rootDirectory.segs, config.serverBuildDirectory.segs)
  /\ removed

\* C8: for a manifest with a dangling parentId, build() ends in failure and
\* launches no server bundle build, with or without a classification
\* function.
C8_DanglingParentFailsBuild ==
  (config.pluginFound /\ HasDanglingParent(config.routes)) =>
    /\ ServerCalls = {}
    /\ outcome.status # "resolved"

\* C9: the bundle assigner returns no ServerBuildConfig whose directory is
\* outside the default output directory.
C9_NoBundleOutsideDefault ==
  pc = "assigned" =>
    \A i \in 1..Len(serverBundles) :
       /\ serverBundles[i].serverBuildDirectory.drive =
            config.serverBuildDirectory.drive
       /\ IsPrefix(config.serverBuildDirectory.segs,
                   serverBundles[i].serverBuildDirectory.segs)

\* C10: without a classification function the bundle assigner returns
\* exactly one ServerBuildConfig, holding every route of the manifest and
\* the default output directory, for every manifest.
C10_SingleBundleIsWholeManifest ==
  (pc # "assign" /\ config.serverBundleDirectory = NoClassifier) =>
    /\ pc = "assigned"
    /\ Len(serverBundles) = 1
    /\ serverBundles[1].routes = config.routes
    /\ serverBundles[1].serverBuildDirectory = config.serverBuildDirectory

C10_Witness ==
  /\ pc = "assigned"
  /\ config.serverBundleDirectory = NoClassifier
  /\ Len(config.routes) >= 2
  /\ \A i \in 1..Len(config.routes) : config.routes[i].parentId = NoParent

\* The routes of a routes map, as a set.
RouteSet(routes) == {routes[i] : i \in 1..Len(routes)}

RECURSIVE Up(_, _, _)
\* The id reached from id after n parent links, stopping at an id that is
\* not a key of the manifest.
Up(routes, id, n) ==
  IF n = 0 \/ id \notin Keys(routes) THEN id
  ELSE Up(routes, Lookup(routes, id).parentId, n - 1)

\* Every route reaches a route without parent: no dangling parent, no cycle.
WellFormed(routes) ==
  \A id \in Keys(routes) : Up(routes, id, Len(routes)) = NoParent

\* The ids of the routes that are no route's parent.
LeafIds(routes) ==
  {id \in Keys(routes) : \A j \in 1..Len(routes) : routes[j].parentId # id}

\* The bundle key of a leaf: the default directory joined with what the
\* classification function returns for it.
LeafKey(id) ==
  PathJoin(config.serverBuildDirectory, config.serverBundleDirectory[1][id])

Classified == config.serverBundleDirectory # NoClassifier

\* C11: for a well-formed non-empty manifest and a classification function
\* that maps every leaf to the same key, the bundle assigner returns exactly
\* one bundle, whose routes are the routes of the manifest, each once.
C11_SameKeyYieldsWholeManifest ==
  (/\ pc # "assign"
   /\ Classified
   /\ config.routes # <<>>
   /\ WellFormed(config.routes)
   /\ \A x, y \in LeafIds(config.routes) : LeafKey(x) = LeafKey(y)) =>
    /\ pc = "assigned"
    /\ Len(serverBundles) = 1
    /\ RouteSet(serverBundles[1].routes) = RouteSet(config.routes)
    /\ Len(serverBundles[1].routes) = Len(config.routes)

C11_Witness ==
  /\ pc = "assigned"
  /\ Classified
  /\ WellFormed(config.routes)
  /\ Len(config.routes) = 3
  /\ Cardinality(LeafIds(config.routes)) = 2
  /\ Cardinality({i \in 1..3 : config.routes[i].parentId = NoParent}) = 1
  /\ Len(serverBundles) = 1

\* The routes from a route up to its outermost ancestor, as a set.
ChainRoutes(routes, id) ==
  {Lookup(routes, x) :
     x \in {Up(routes, id, n) : n \in 0..Len(routes)} \cap Keys(routes)}

\* C12: each returned bundle's routes are exactly the union of the match
\* chains of the leaves whose bundle key is the bundle's directory; every
\* key has its bundle, and when every leaf maps to a distinct key there is
\* one bundle per leaf.
C12_BundleIsUnionOfItsLeafChains ==
  (pc = "assigned" /\ Classified) =>
    /\ \A i \in 1..Len(serverBundles) :
         RouteSet(serverBundles[i].routes) =
           UNION {ChainRoutes(config.routes, l) :
                    l \in {x \in LeafIds(config.routes) :
                             LeafKey(x) = serverBundles[i].serverBuildDirectory}}
    /\ {serverBundles[i].serverBuildDirectory : i \in 1..Len(serverBundles)} =
         {LeafKey(l) : l \in LeafIds(config.routes)}
    /\ (\A x, y \in LeafIds(config.routes) : x # y => LeafKey(x) # LeafKey(y))
         => Len(serverBundles) = Cardinality(LeafIds(config.routes))

C12_Witness ==
  /\ pc = "assigned"
  /\ Classified
  /\ WellFormed(config.routes)
  /\ Len(serverBundles) = 2
  /\ Cardinality(LeafIds(config.routes)) = 2
  /\ RouteSet(serverBundles[1].routes) \cap RouteSet(serverBundles[2].routes)
       # {}

\* The position of a route in the manifest.
PosOf(routes, id) == CHOOSE i \in 1..Len(routes) : routes[i].id = id

\* The position of the first leaf whose bundle key is dir.
FirstLeafPos(dir) ==
  LET ps == {PosOf(config.routes, l) :
               l \in {x \in LeafIds(config.routes) : LeafKey(x) = dir}}
  IN CHOOSE p \in ps : \A q \in ps : p <= q

\* C13: the bundles are ordered by the first occurrence of their key among
\* the leaves taken in manifest order: bundle i precedes bundle j exactly
\* when the first leaf of i's key comes before the first leaf of j's key.
C13_BundlesInFirstOccurrenceOrder ==
  (pc = "assigned" /\ Classified) =>
    \A i, j \in 1..Len(serverBundles) :
       i < j <=> FirstLeafPos(serverBundles[i].serverBuildDirectory)
                   < FirstLeafPos(serverBundles[j].serverBuildDirectory)

\* Leaves keyed y, x, y give the bundles y, x: not sorted by key, and the
\* later leaf of y does not move it.
C13_Witness ==
  /\ pc = "assigned"
  /\ Classified
  /\ Cardinality(LeafIds(config.routes)) = 3
  /\ Len(serverBundles) = 2
  /\ serverBundles[1].serverBuildDirectory = PathJoin(AppBuild, <<"y">>)
  /\ serverBundles[2].serverBuildDirectory = PathJoin(AppBuild, <<"x">>)
  /\ LeafKey(config.routes[3].id) = PathJoin(AppBuild, <<"y">>)

\* The number of vite.build invocations for bundle i (0: the client build).
CallCount(i) == Cardinality({k \in 1..Len(calls) : calls[k] = i})

\* C14: in a run in which the guard and the client build succeed, the build
\* operation is invoked exactly once in client mode and exactly once in
\* server mode for each ServerBuildConfig the bundle assigner produced,
\* whether or not a sibling bundle build fails.
C14_EachBuildInvokedOnce ==
  /\ CallCount(0) <= 1
  /\ (client = "ok" /\ pc \in {"awaitServers", "done"}) =>
       /\ CallCount(0) = 1
       /\ getServerBundles(config).kind = "ok" =>
            serverBundles = getServerBundles(config).bundles
       /\ \A i \in 1..Len(serverBundles) : CallCount(i) = 1
       /\ \A k \in 1..Len(calls) : calls[k] \in 0..Len(serverBundles)

C14_Witness ==
  /\ pc = "done"
  /\ client = "ok"
  /\ Len(serverBundles) = 3
  /\ server[1] = "failed"
  /\ server[2] = "ok"
  /\ server[3] = "failed"
  /\ \A i \in 1..3 : CallCount(i) = 1

\* C15: no two ServerBuildConfigs returned by the bundle assigner have equal
\* serverBuildDirectory.
C15_BundleDirectoriesDistinct ==
  pc = "assigned" =>
    \A i, j \in 1..Len(serverBundles) :
       i # j => serverBundles[i].serverBuildDirectory
                  # serverBundles[j].serverBuildDirectory

C15_Witness ==
  /\ pc = "assigned"
  /\ Classified
  /\ Cardinality(LeafIds(config.routes)) = 3
  /\ Len(serverBundles) = 2
  /\ serverBundles[1].serverBuildDirectory = PathJoin(AppBuild, <<"x">>)
  /\ serverBundles[2].serverBuildDirectory = PathJoin(AppBuild, <<"..", "x">>)

\* C16: every bundle returned in classification mode is parent-closed: the
\* parent of each of its routes that has one is in the same routes map.
C16_BundlesAreParentClosed ==
  (pc = "assigned" /\ Classified) =>
    \A i \in 1..Len(serverBundles) :
       \A r \in RouteSet(serverBundles[i].routes) :
          r.parentId # NoParent => r.parentId \in Keys(serverBundles[i].routes)

\* Two leaves in different bundles under one parent: each bundle holds the
\* parent and its own leaf.
C16_Witness ==
  /\ pc = "assigned"
  /\ Classified
  /\ Len(config.routes) = 3
  /\ Len(serverBundles) = 2
  /\ \A i \in 1..2 :
       /\ Len(serverBundles[i].routes) = 2
       /\ \E r \in RouteSet(serverBundles[i].routes) :
            /\ r.parentId # NoParent
            /\ r.parentId \in Keys(serverBundles[1].routes)
            /\ r.parentId \in Keys(serverBundles[2].routes)

\* C17: getLeafRoutes returns exactly the routes whose id is not the
\* parentId of any route, each once, in manifest order; a manifest of a
\* single root route yields that route.
C17_LeafRoutesAreTheChildlessRoutes ==
  pc = "leafRoutes" =>
    /\ RouteSet(leafResult) =
         {r \in RouteSet(config.routes) :
            \A j \in 1..Len(config.routes) : config.routes[j].parentId # r.id}
    /\ \A a, b \in 1..Len(leafResult) :
         a < b => PosOf(config.routes, leafResult[a].id)
                    < PosOf(config.routes, leafResult[b].id)
    /\ (Len(config.routes) = 1 /\ config.routes[1].parentId = NoParent)
         => leafResult = config.routes

\* A parent inserted after its two children: the leaves keep manifest order.
C17_Witness ==
  /\ pc = "leafRoutes"
  /\ Len(config.routes) = 3
  /\ config.routes[3].parentId = NoParent
  /\ leafResult = <<config.routes[1], config.routes[2]>>

\* The number of parent links between a route and its outermost ancestor.
Depth(routes, id) ==
  CHOOSE n \in 0..Len(routes) :
    Up(routes, id, n) # NoParent /\ Up(routes, id, n + 1) = NoParent

\* A call of getRouteMatches has ended (or is known never to end).
MatchesCalled == pc \in {"matched", "missing", "hang"}

\* C18: for a well-formed manifest and a route id in it, getRouteMatches
\* returns a chain whose first element has no parent, whose last element is
\* the route of the id, each element being the parent of the next, of
\* length depth + 1.
C18_MatchChainIsRootFirst ==
  (MatchesCalled /\ WellFormed(config.routes)
     /\ startId \in Keys(config.routes)) =>
    /\ pc = "matched"
    /\ Len(chain) >= 1
    /\ chain[1].parentId = NoParent
    /\ chain[Len(chain)] = Lookup(config.routes, startId)
    /\ \A k \in 2..Len(chain) :
         /\ chain[k] \in RouteSet(config.routes)
         /\ chain[k].parentId = chain[k - 1].id
    /\ Len(chain) = Depth(config.routes, startId) + 1

C18_Witness ==
  /\ pc = "matched"
  /\ WellFormed(config.routes)
  /\ Len(chain) = 3
  /\ chain[3].id = startId

\* Some id visited on the parent walk from id is not a key of the manifest.
VisitsMissing(routes, id) ==
  \E n \in 0..Len(routes) : Up(routes, id, n) \notin Keys(routes) \cup {NoParent}

\* C19: getRouteMatches fails with "Missing route", and returns no partial
\* chain, whenever the starting id or an ancestor's parentId is not a key of
\* the manifest.
C19_MissingRouteRaises ==
  (MatchesCalled /\ VisitsMissing(config.routes, startId)) =>
    pc = "missing" /\ chain = <<>>

\* The missing id is the grandparent of the starting route.
C19_Witness ==
  /\ pc = "missing"
  /\ startId \in Keys(config.routes)
  /\ Up(config.routes, startId, 1) \in Keys(config.routes)
  /\ Up(config.routes, startId, 2) \notin Keys(config.routes) \cup {NoParent}

\* A cycle of parentId links is reachable from id: after as many links as
\* the manifest has routes the walk is still on a key of the manifest.
CycleReachable(routes, id) == Up(routes, id, Len(routes)) \in Keys(routes)

\* The call has returned or thrown.
Terminated == pc \in {"returned", "thrown"}

\* C20: the parent walk of getRouteMatches terminates, with a chain or with
\* "Missing route", when no parent cycle is reachable from the starting id,
\* and never terminates when one is; getServerBundles in classification
\* mode terminates when no leaf has a parent cycle among its ancestors.
C20_WalkTerminatesIffNoCycle ==
  /\ []((startId # NoParent /\ ~CycleReachable(config.routes, startId))
          => <>Terminated)
  /\ []((startId # NoParent /\ CycleReachable(config.routes, startId))
          => ~Terminated)
  /\ []((/\ startId = NoParent
         /\ Classified
         /\ \A l \in LeafIds(config.routes) :
              ~CycleReachable(config.routes, l))
          => <>Terminated)

\* A walk on a cycle that has pushed more routes than the manifest holds.
C20_Witness ==
  /\ pc = "walk"
  /\ startId # NoParent
  /\ CycleReachable(config.routes, startId)
  /\ Len(walkResult) > Len(config.routes)

\* The loops, run to their end, return what the closed forms compute.
StepwiseAgreesWithClosedForm ==
  /\ (pc = "returned" /\ startId = NoParent) =>
       getServerBundles(config) = [kind |-> "ok", bundles |-> acc]
  /\ (pc = "returned" /\ startId # NoParent) =>
       getRouteMatches(config.routes, startId) = [kind |-> "ok", matches |-> chain]
  /\ (pc = "thrown" /\ startId # NoParent) =>
       getRouteMatches(config.routes, startId).kind = "throw"
  /\ (pc = "thrown" /\ startId = NoParent) =>
       getServerBundles(config).kind = "throw"

====
